---------------------------- MODULE Spec2Model ----------------------------
(***************************************************************************)
(* The turn / session / voice orchestration of the AI Tutor front end:     *)
(* App (frontend/src/App.js) and ChatInterface (unnamed/part_001).         *)
(*                                                                         *)
(* React is modelled by what it does to the program's state: an event      *)
(* handler (or a timer / promise / speech-service callback) runs to        *)
(* completion, and the re-render and the effects it causes are part of the *)
(* same step.  ChatInterface is rendered only on the chat tab and is keyed *)
(* by sessionId, so a change of tab or of session unmounts the instance    *)
(* (its cleanups run, its useState values are lost) and mounts a fresh     *)
(* one; callbacks created by an unmounted instance keep the values their   *)
(* closure captured and its setState calls do nothing.                     *)
(***************************************************************************)
EXTENDS Integers, Sequences, FiniteSets, TLC

\* ------------------------------------------------------------------ bounds
MaxTurns    == 2   \* backend requests dispatched in one run
MaxMounts   == 4   \* ChatInterface instances mounted in one run
MaxSessions == 3   \* session identifiers generated in one run
MaxUtter    == 3   \* SpeechSynthesisUtterance objects created in one run
MaxRetry    == 2   \* largest retry_after_seconds the backend sends under Spec
MaxResults  == 1   \* final transcript segments recognised in one run
MaxFormatSeconds == 86400  \* largest remaining time displayed under FormatSpec

\* ------------------------------------------------------- program constants
DefaultRetry   == 3600
SecondsPerHour == 3600
SecondsPerMin  == 60

\* ------------------------------------------------------------- JS values
\* retrySeconds holds null (its initial state), a number, or undefined.
JsNull   == [t |-> "null", v |-> 0]
JsUndef  == [t |-> "undefined", v |-> 0]
Num(n)   == [t |-> "number", v |-> n]
\* JS `x > 0`: null and undefined compare false.
IsPositive(x) == x.t = "number" /\ x.v > 0
\* JS `!x || x <= 0` for these values: null, undefined, 0 are falsy.
FalsyOrNonPositive(x) == x.t # "number" \/ x.v <= 0

NoSession == 0   \* sessionId === null
NoUtter   == 0   \* currentUtteranceRef.current === null
NoInst    == 0   \* ChatInterface is not rendered (documents tab)

Emotions  == {"happy", "explaining", "thinking", "encouraging", "neutral"}
NoEmotion == "none"          \* response.data.emotion absent
\* what the backend is made to answer with: a tagged and an untagged reply
RespEmotions == {"explaining", NoEmotion}

\* Text the user types: empty, whitespace only, or a question.  A recognised
\* final segment appends "w " to whatever is there.
TypedTexts  == {"", " ", "q"}
BlankTexts  == {"", " "}                 \* the strings whose trim() is empty
\* Answers: ordinary text, markup only (stripping leaves nothing), whitespace.
Answers     == {"text", "#", " "}
IsBlank(s)  == s \in BlankTexts          \* !s || !s.trim()
RemoveMd(s) == IF s = "#" THEN "" ELSE s

QuotaErrorText   == "API limit reached. Check the popup for details."
GenericErrorText == "Failed to get response. Please try again."

\* --------------------------------------------------------------- formatTime
Digit(d) == CASE d = 0 -> "0" [] d = 1 -> "1" [] d = 2 -> "2" [] d = 3 -> "3"
              [] d = 4 -> "4" [] d = 5 -> "5" [] d = 6 -> "6" [] d = 7 -> "7"
              [] d = 8 -> "8" [] d = 9 -> "9"

RECURSIVE NatToString(_)
\* Number.prototype.toString() of a natural number, one character per element
NatToString(n) == IF n < 10 THEN <<Digit(n)>>
                  ELSE NatToString(n \div 10) \o <<Digit(n % 10)>>

RECURSIVE PadStart(_, _, _)
\* String.prototype.padStart(len, ch)
PadStart(s, len, ch) == IF Len(s) >= len THEN s ELSE PadStart(<<ch>> \o s, len, ch)

ZeroDisplay == <<"0","0","h"," ","0","0","m"," ","0","0","s">>

FormatTimeMinutesNotReduced(seconds) ==
  IF FalsyOrNonPositive(seconds) THEN ZeroDisplay
  ELSE LET h == seconds.v \div SecondsPerHour
           m == seconds.v \div SecondsPerMin
           s == seconds.v % SecondsPerMin
       IN  PadStart(NatToString(h), 2, "0") \o <<"h", " ">>
           \o PadStart(NatToString(m), 2, "0") \o <<"m", " ">>
           \o PadStart(NatToString(s), 2, "0") \o <<"s">>

\* formatTime(seconds): the display as a sequence of characters
formatTime(seconds) ==
  IF FalsyOrNonPositive(seconds) THEN ZeroDisplay
  ELSE LET h == seconds.v \div SecondsPerHour
           m == (seconds.v % SecondsPerHour) \div SecondsPerMin
           s == seconds.v % SecondsPerMin
       IN  PadStart(NatToString(h), 2, "0") \o <<"h", " ">>
           \o PadStart(NatToString(m), 2, "0") \o <<"m", " ">>
           \o PadStart(NatToString(s), 2, "0") \o <<"s">>

\* ---------------------------------------------------------------- state
VARIABLES
  \* App (useState)
  sessionId, activeTab, currentEmotion, isMascotSpeaking, currentResponse,
  sessionMessages, sessions, showSessionList,
  \* App: pending setTimeout(..., 300) callbacks of handleSpeakingChange
  emotionResets,
  \* localStorage
  lsSession, lsMessages, lsSessions, lsAutoSpeak,
  \* ChatInterface: the mounted instance (NoInst on the documents tab), the
  \* number of instances mounted so far, and the mounted instance's useState
  inst, mounts, chat,
  \* currentUtteranceRef of every instance ever mounted
  currentUtteranceRef,
  \* the world: identifiers generated, requests in flight, turns dispatched,
  \* pending setTimeout(speakText, 100) callbacks, the utterances handed to
  \* speechSynthesis, the recognition service, segments recognised
  nextSid, requests, turns, speakTimers, utterances, recognition, results

appVars   == <<sessionId, activeTab, currentEmotion, isMascotSpeaking,
               currentResponse, sessionMessages, sessions, showSessionList,
               emotionResets>>
lsVars    == <<lsSession, lsMessages, lsSessions, lsAutoSpeak>>
chatVars  == <<inst, mounts, chat, currentUtteranceRef>>
worldVars == <<nextSid, requests, turns, speakTimers, utterances, recognition,
               results>>
vars      == <<appVars, lsVars, chatVars, worldVars>>

\* ------------------------------------------------------------- helpers
\* messages={sessionMessages[sessionId] || []}
Messages(sm, sid) == IF sid \in DOMAIN sm THEN sm[sid] ELSE <<>>

UserMessage(text)   == [role |-> "user", content |-> text]
AiMessage(answer)   == [role |-> "assistant", content |-> answer]
ErrorMessage(text)  == [role |-> "error", content |-> text]

Range(seq) == {seq[i] : i \in 1..Len(seq)}

CatalogIds(ss) == {ss[i].id : i \in 1..Len(ss)}

RECURSIVE Filter(_, _)
\* Array.prototype.filter with the predicate "x \notin drop-worthy", given as
\* the set of elements to keep
Filter(seq, keep) ==
  IF seq = <<>> THEN <<>>
  ELSE (IF Head(seq) \in keep THEN <<Head(seq)>> ELSE <<>>) \o Filter(Tail(seq), keep)

\* useEffect on [sessionMessages]: written only when there is at least one key
PersistMessages(sm) == IF DOMAIN sm # {} THEN sm ELSE lsMessages

\* useEffect on [sessions]: only sessions with messages, only if any is left
PersistSessions(ss) ==
  LET valid == Filter(ss, {x \in Range(ss) : x.messageCount > 0})
  IN  IF Len(ss) > 0 /\ Len(valid) > 0 THEN valid ELSE lsSessions

\* ------------------------------------------------- ChatInterface lifecycle
\* const [autoSpeak] = useState(() => saved !== null ? JSON.parse(saved) : true)
ParseAutoSpeak(saved) == IF saved = "absent" THEN TRUE ELSE saved = "true"
StringifyBool(b)      == IF b THEN "true" ELSE "false"

\* The useState values of a freshly mounted instance, after its mount effects
\* (the countdown effect has run formatTime(null)).
FreshChat(auto) ==
  [inputValue |-> "", isLoading |-> FALSE, isListening |-> FALSE,
   showQuotaPopup |-> FALSE, retrySeconds |-> JsNull,
   countdown |-> formatTime(JsNull), isSpeaking |-> FALSE, autoSpeak |-> auto]

\* speechSynthesis.cancel(): every utterance still queued or being spoken is
\* removed; each is still owed its error/end event, delivered later.
CancelAll(uts) ==
  [u \in DOMAIN uts |->
     IF uts[u].status \in {"pending", "speaking"}
     THEN [uts[u] EXCEPT !.status = "cancelled"] ELSE uts[u]]

\* The cleanups of an unmounting instance: clearInterval(timer), recognition
\* stopped with its handlers detached, synth.cancel().
Cleanup ==
  /\ recognition' = "idle"
  /\ utterances' = IF inst # NoInst THEN CancelAll(utterances) ELSE utterances

\* <ChatInterface key={sessionId}> is replaced by a new instance.
Remount ==
  /\ mounts < MaxMounts
  /\ Cleanup
  /\ inst' = mounts + 1
  /\ mounts' = mounts + 1
  /\ chat' = FreshChat(ParseAutoSpeak(lsAutoSpeak))
  /\ lsAutoSpeak' = StringifyBool(ParseAutoSpeak(lsAutoSpeak))
  /\ UNCHANGED currentUtteranceRef

\* activeTab leaves 'chat': the instance is unmounted and none replaces it.
Unmount ==
  /\ Cleanup
  /\ inst' = NoInst
  /\ chat' = FreshChat(ParseAutoSpeak(lsAutoSpeak))
  /\ UNCHANGED <<mounts, lsAutoSpeak, currentUtteranceRef>>

KeepMounted ==
  UNCHANGED <<inst, mounts, chat, currentUtteranceRef, lsAutoSpeak,
              recognition, utterances>>

\* ------------------------------------------------------------------ Init
\* The state once the application has started on an empty localStorage: App
\* has rendered, ChatInterface's "Initialize session" effect has generated
\* the first identifier, and the instance keyed by it is mounted.
Init ==
  /\ sessionId = 1
  /\ activeTab = "chat"
  /\ currentEmotion = "neutral"
  /\ isMascotSpeaking = FALSE
  /\ currentResponse = ""
  /\ sessionMessages = <<>>
  /\ sessions = <<>>
  /\ showSessionList = FALSE
  /\ emotionResets = 0
  /\ lsSession = 1
  /\ lsMessages = <<>>
  /\ lsSessions = <<>>
  /\ lsAutoSpeak = "true"
  /\ inst = 1
  /\ mounts = 1
  /\ chat = FreshChat(TRUE)
  /\ currentUtteranceRef = [i \in 1..MaxMounts |-> NoUtter]
  /\ nextSid = 1
  /\ requests = {}
  /\ turns = 0
  /\ speakTimers = {}
  /\ utterances = <<>>
  /\ recognition = "idle"
  /\ results = 0

\* ---------------------------------------------------------------- restart
\* activeTab is "chat" or "documents"; Crashed stands for an application that
\* renders none of its interface: a render of App threw (React unmounts the
\* tree), or a render below ErrorBoundary threw (its fallback is shown).
Crashed == "crashed"

\* The page is reloaded and the application starts on what localStorage
\* holds.  Everything of the old page is gone: its requests, its timers, its
\* utterances and their handlers.  In the first commit ChatInterface's
\* "Initialize session" effect runs before App's load effect (effects of a
\* child run first): it finds sessionId null, generates an identifier and
\* stores it, and that is what App's effect then reads as the saved session.
\* The transcripts and the catalog are read back; catalog entries without
\* messages are filtered out.  storedMessages and storedSessions are what
\* reading the two keys gives, auto is the initial autoSpeak.
Startup(storedMessages, storedSessions, auto) ==
  /\ activeTab # Crashed
  /\ nextSid < MaxSessions /\ mounts < MaxMounts
  /\ nextSid' = nextSid + 1
  /\ sessionId' = nextSid + 1
  /\ lsSession' = nextSid + 1
  /\ activeTab' = "chat"
  /\ currentEmotion' = "neutral"
  /\ isMascotSpeaking' = FALSE
  /\ currentResponse' = ""
  /\ showSessionList' = FALSE
  /\ emotionResets' = 0
  /\ sessionMessages' = storedMessages
  /\ sessions' = Filter(storedSessions,
                        {x \in Range(storedSessions) : x.messageCount > 0})
  /\ lsMessages' = IF DOMAIN sessionMessages' # {}
                   THEN sessionMessages' ELSE storedMessages
  /\ lsSessions' = IF Len(sessions') > 0 THEN sessions' ELSE storedSessions
  /\ inst' = mounts + 1
  /\ mounts' = mounts + 1
  /\ chat' = FreshChat(auto)
  /\ lsAutoSpeak' = StringifyBool(auto)
  /\ requests' = {}
  /\ speakTimers' = {}
  /\ utterances' = [u \in DOMAIN utterances |-> [utterances[u] EXCEPT !.status = "done"]]
  /\ recognition' = "idle"
  /\ UNCHANGED <<currentUtteranceRef, turns, results>>

Restart == Startup(lsMessages, lsSessions, ParseAutoSpeak(lsAutoSpeak))

\* A render throws during startup and nothing of the interface is left.  The
\* stored values stay as they are, so every later reload ends the same way.
StartupCrash ==
  /\ activeTab # Crashed
  /\ activeTab' = Crashed
  /\ inst' = NoInst
  /\ chat' = FreshChat(TRUE)
  /\ showSessionList' = FALSE
  /\ emotionResets' = 0
  /\ requests' = {}
  /\ speakTimers' = {}
  /\ utterances' = [u \in DOMAIN utterances |-> [utterances[u] EXCEPT !.status = "done"]]
  /\ recognition' = "idle"
  /\ UNCHANGED <<sessionId, currentEmotion, isMascotSpeaking, currentResponse,
                 sessionMessages, sessions, lsVars, mounts, currentUtteranceRef,
                 nextSid, turns, results>>

\* How a stored value can be damaged when the application starts.
\* ai_tutor_messages: text that does not parse, or the text "null";
\* ai_tutor_sessions: text that does not parse, or JSON that is not an array;
\* ai_tutor_auto_speak: text that does not parse.
MessagesDamage  == {"intact", "unparseable", "null"}
SessionsDamage  == {"intact", "unparseable", "notArray"}
AutoSpeakDamage == {"intact", "unparseable"}

\* The page is reloaded after stored values were damaged.
\*  - messages: JSON.parse throws inside try/catch and the state stays {};
\*    "null" parses, setSessionMessages(null), and App's next render throws
\*    on sessionMessages[sessionId];
\*  - sessions: JSON.parse or parsed.filter throws inside try/catch and the
\*    state stays [];
\*  - auto-speak: JSON.parse throws in the useState initializer, during the
\*    render of ChatInterface.
\* A text that fails to parse inside try/catch is read like an absent key by
\* this and every later start, and is kept as an absent key here.
RestartDamaged(dm, ds, da) ==
  IF dm = "null" \/ da = "unparseable"
  THEN StartupCrash
  ELSE Startup(IF dm = "intact" THEN lsMessages ELSE <<>>,
               IF ds = "intact" THEN lsSessions ELSE <<>>,
               ParseAutoSpeak(lsAutoSpeak))

\* ------------------------------------------------------------ App handlers
\* onClick={() => setActiveTab(tab)}
SetActiveTab(tab) ==
  /\ activeTab # Crashed
  /\ activeTab' = tab
  /\ IF tab = activeTab THEN KeepMounted
     ELSE IF tab = "chat" THEN Remount ELSE Unmount
  /\ UNCHANGED <<sessionId, currentEmotion, isMascotSpeaking, currentResponse,
                 sessionMessages, sessions, showSessionList, emotionResets,
                 lsSession, lsMessages, lsSessions,
                 nextSid, requests, turns, speakTimers, results>>

\* onClick={() => setShowSessionList(!showSessionList)}
ToggleSessionList ==
  /\ activeTab # Crashed
  /\ showSessionList' = ~showSessionList
  /\ UNCHANGED <<sessionId, activeTab, currentEmotion, isMascotSpeaking,
                 currentResponse, sessionMessages, sessions, emotionResets,
                 lsVars, chatVars, worldVars>>

ArchiveEntryIgnoringCatalog(sid, sm, ss) ==
  IF sid # NoSession /\ Len(Messages(sm, sid)) > 0
  THEN <<[id |-> sid, messageCount |-> Len(Messages(sm, sid))]>>
  ELSE <<>>

ArchiveEntryUnconditional(sid, sm, ss) ==
  <<[id |-> sid, messageCount |-> Len(Messages(sm, sid))]>>

\* The entry handleNewSession archives: the session it was called in, if that
\* has messages and is not in the catalog (all three read from the render's
\* closure: sid, sm, ss).
ArchiveEntry(sid, sm, ss) ==
  IF sid # NoSession /\ Len(Messages(sm, sid)) > 0 /\ sid \notin CatalogIds(ss)
  THEN <<[id |-> sid, messageCount |-> Len(Messages(sm, sid))]>>
  ELSE <<>>

StartNewSessionKeepsCurrent ==
  /\ currentEmotion' = "neutral"
  /\ currentResponse' = ""
  /\ isMascotSpeaking' = FALSE
  /\ activeTab' = "chat"
  /\ IF activeTab # "chat" THEN Remount ELSE KeepMounted
  /\ UNCHANGED <<nextSid, sessionId, lsSession>>

\* The part of handleNewSession after the archiving: a fresh identifier is
\* made current, the mascot is reset, the chat tab is shown.
StartNewSession ==
  /\ nextSid < MaxSessions
  /\ nextSid' = nextSid + 1
  /\ sessionId' = nextSid + 1
  /\ lsSession' = nextSid + 1
  /\ currentEmotion' = "neutral"
  /\ currentResponse' = ""
  /\ isMascotSpeaking' = FALSE
  /\ activeTab' = "chat"
  /\ Remount

handleNewSession ==
  /\ activeTab # Crashed
  /\ sessions' = ArchiveEntry(sessionId, sessionMessages, sessions) \o sessions
  /\ lsSessions' = PersistSessions(sessions')
  /\ StartNewSession
  /\ UNCHANGED <<sessionMessages, lsMessages, showSessionList, emotionResets,
                 requests, turns, speakTimers, results>>

handleLoadSessionArchiving(loadSessionId) ==
  /\ showSessionList /\ loadSessionId \in CatalogIds(sessions)
  /\ sessionId' = loadSessionId
  /\ lsSession' = loadSessionId
  /\ showSessionList' = FALSE
  /\ activeTab' = "chat"
  /\ currentEmotion' = "neutral"
  /\ currentResponse' = ""
  /\ isMascotSpeaking' = FALSE
  /\ IF loadSessionId # sessionId \/ activeTab # "chat" THEN Remount ELSE KeepMounted
  /\ sessions' = ArchiveEntry(sessionId, sessionMessages, sessions) \o sessions
  /\ lsSessions' = PersistSessions(sessions')
  /\ UNCHANGED <<sessionMessages, emotionResets, lsMessages,
                 nextSid, requests, turns, speakTimers, results>>

\* onClick of a catalog entry; the list is rendered only when it is shown and
\* not empty
handleLoadSession(loadSessionId) ==
  /\ showSessionList /\ loadSessionId \in CatalogIds(sessions)
  /\ sessionId' = loadSessionId
  /\ lsSession' = loadSessionId
  /\ showSessionList' = FALSE
  /\ activeTab' = "chat"
  /\ currentEmotion' = "neutral"
  /\ currentResponse' = ""
  /\ isMascotSpeaking' = FALSE
  /\ IF loadSessionId # sessionId \/ activeTab # "chat" THEN Remount ELSE KeepMounted
  /\ UNCHANGED <<sessionMessages, sessions, emotionResets, lsMessages,
                 lsSessions, nextSid, requests, turns, speakTimers, results>>

\* onClick of a catalog entry's delete button
handleDeleteSession(deleteSessionId) ==
  /\ showSessionList /\ deleteSessionId \in CatalogIds(sessions)
  /\ LET kept == Filter(sessions, {x \in Range(sessions) : x.id # deleteSessionId})
         sm   == [s \in DOMAIN sessionMessages \ {deleteSessionId} |-> sessionMessages[s]]
     IN  /\ sessionMessages' = sm
         /\ lsMessages' = PersistMessages(sm)
         /\ IF deleteSessionId = sessionId
            THEN \* handleNewSession() of the same render: its closure still
                 \* sees the catalog and the transcripts from before the delete
                 /\ sessions' = ArchiveEntry(sessionId, sessionMessages, sessions) \o kept
                 /\ StartNewSession
            ELSE /\ sessions' = kept
                 /\ KeepMounted
                 /\ UNCHANGED <<sessionId, lsSession, currentEmotion, currentResponse,
                                isMascotSpeaking, activeTab, nextSid>>
         /\ lsSessions' = PersistSessions(sessions')
  /\ UNCHANGED <<showSessionList, emotionResets, requests, turns, speakTimers, results>>

\* setTimeout(() => { setCurrentEmotion('neutral'); setCurrentResponse('') }, 300)
EmotionResetTimeout ==
  /\ emotionResets > 0
  /\ emotionResets' = emotionResets - 1
  /\ currentEmotion' = "neutral"
  /\ currentResponse' = ""
  /\ UNCHANGED <<sessionId, activeTab, isMascotSpeaking, sessionMessages, sessions,
                 showSessionList, lsVars, chatVars, worldVars>>

\* ---------------------------------------------------- ChatInterface: input
\* onChange of the text input, which is disabled while isLoading
SetInputValue(text) ==
  /\ inst # NoInst /\ ~chat.isLoading
  /\ chat' = [chat EXCEPT !.inputValue = text]
  /\ UNCHANGED <<appVars, lsVars, inst, mounts, currentUtteranceRef, worldVars>>

\* onChange of the auto-speak checkbox, with the effect that saves it
SetAutoSpeak(checked) ==
  /\ inst # NoInst
  /\ chat' = [chat EXCEPT !.autoSpeak = checked]
  /\ lsAutoSpeak' = StringifyBool(checked)
  /\ UNCHANGED <<appVars, lsSession, lsMessages, lsSessions, inst, mounts,
                 currentUtteranceRef, worldVars>>

\* ------------------------------------------------ ChatInterface: listening
\* recognition: "idle", "capturing", "stopping" (stop() was called: the
\* service may still deliver a result for the audio it has, then ends), or
\* "failed" (an error occurred: only the end event is still to come).
toggleListening ==
  /\ inst # NoInst
  /\ IF chat.isListening
     THEN /\ recognition' = IF recognition = "capturing" THEN "stopping" ELSE recognition
          /\ UNCHANGED chat
     ELSE IF recognition = "idle"
          THEN /\ recognition' = "capturing"
               /\ chat' = [chat EXCEPT !.isListening = TRUE]
          ELSE \* start() throws InvalidStateError: caught, a toast is shown
               UNCHANGED <<recognition, chat>>
  /\ UNCHANGED <<appVars, lsVars, inst, mounts, currentUtteranceRef, nextSid,
                 requests, turns, speakTimers, utterances, results>>

\* recognitionInstance.onresult with a final segment
handleResult ==
  /\ inst # NoInst /\ recognition \in {"capturing", "stopping"}
  /\ results < MaxResults
  /\ results' = results + 1
  /\ chat' = [chat EXCEPT !.inputValue = @ \o "w "]
  /\ UNCHANGED <<appVars, lsVars, inst, mounts, currentUtteranceRef, nextSid,
                 requests, turns, speakTimers, utterances, recognition>>

\* recognitionInstance.onerror; the service then ends
handleError ==
  /\ inst # NoInst /\ recognition = "capturing"
  /\ recognition' = "failed"
  /\ chat' = [chat EXCEPT !.isListening = FALSE]
  /\ UNCHANGED <<appVars, lsVars, inst, mounts, currentUtteranceRef, nextSid,
                 requests, turns, speakTimers, utterances, results>>

\* recognitionInstance.onend
handleEnd ==
  /\ inst # NoInst /\ recognition \in {"capturing", "stopping", "failed"}
  /\ recognition' = "idle"
  /\ chat' = [chat EXCEPT !.isListening = FALSE]
  /\ UNCHANGED <<appVars, lsVars, inst, mounts, currentUtteranceRef, nextSid,
                 requests, turns, speakTimers, utterances, results>>

\* ------------------------------------------------- ChatInterface: the turn
SubmitRejectedOnlyWhileLoading(c) == c.isLoading

\* if (!inputValue.trim() || isLoading) return;
SubmitRejected(c) == IsBlank(c.inputValue) \/ c.isLoading

\* handleSendMessage up to the await.  The request keeps what the closure of
\* this render captured: the instance, sessionId (through setMessages =
\* updateSessionMessages of App's render), newMessages, autoSpeak.
handleSendMessage ==
  /\ inst # NoInst
  /\ IF SubmitRejected(chat) THEN UNCHANGED vars
     ELSE LET newMessages == Append(Messages(sessionMessages, sessionId),
                                    UserMessage(chat.inputValue))
          IN  /\ turns < MaxTurns
              /\ turns' = turns + 1
              /\ recognition' = IF chat.isListening /\ recognition = "capturing"
                                THEN "stopping" ELSE recognition
              /\ sessionMessages' = (sessionId :> newMessages) @@ sessionMessages
              /\ lsMessages' = PersistMessages(sessionMessages')
              /\ chat' = [chat EXCEPT !.isListening = FALSE, !.inputValue = "",
                                      !.isLoading = TRUE]
              /\ requests' = requests \cup
                   {[id |-> turns + 1, inst |-> inst, sid |-> sessionId,
                     newMessages |-> newMessages, autoSpeak |-> chat.autoSpeak]}
              /\ UNCHANGED <<sessionId, activeTab, currentEmotion, isMascotSpeaking,
                             currentResponse, sessions, showSessionList, emotionResets,
                             lsSession, lsSessions, lsAutoSpeak, inst, mounts,
                             currentUtteranceRef, nextSid, speakTimers, utterances,
                             results>>

updateSessionMessagesOfCurrent(sid, list) ==
  /\ sessionMessages' = (sessionId :> list) @@ sessionMessages
  /\ lsMessages' = PersistMessages(sessionMessages')

updateSessionMessagesSkipped(sid, list) ==
  UNCHANGED <<sessionMessages, lsMessages>>

\* setMessages(list) of the render the request was sent from:
\* setSessionMessages(prev => ({...prev, [sessionId]: list}))
updateSessionMessages(sid, list) ==
  /\ sessionMessages' = (sid :> list) @@ sessionMessages
  /\ lsMessages' = PersistMessages(sessionMessages')

FinishTurnSkipped(r, c) == c

\* finally { setIsLoading(false) }: a no-op once the instance is unmounted
FinishTurn(r, c) == IF r.inst = inst THEN [c EXCEPT !.isLoading = FALSE] ELSE c

\* The try branch after the await: the backend answered.
ResolveSuccess(r, answer, emotion) ==
  /\ r \in requests
  /\ requests' = requests \ {r}
  /\ updateSessionMessages(r.sid, Append(r.newMessages, AiMessage(answer)))
  /\ currentEmotion' = IF emotion # NoEmotion THEN emotion ELSE currentEmotion
  /\ currentResponse' = answer
  /\ speakTimers' = IF r.autoSpeak
                    THEN speakTimers \cup {[id |-> r.id, inst |-> r.inst,
                                            text |-> answer, autoSpeak |-> r.autoSpeak]}
                    ELSE speakTimers
  /\ chat' = FinishTurn(r, chat)
  \* r.sid is never null (a session exists before anything can be submitted),
  \* so `if (!sessionId && response.data.session_id)` adopts nothing
  /\ UNCHANGED <<sessionId, activeTab, isMascotSpeaking, sessions, showSessionList,
                 emotionResets, lsSession, lsSessions, lsAutoSpeak, inst, mounts,
                 currentUtteranceRef, nextSid, turns, utterances, recognition,
                 results>>

\* error.response.data.detail of a 429: an object with retry_after_seconds,
\* an object without it, a string, or null
Details == [kind : {"object"}, seconds : 0..MaxRetry]
           \cup [kind : {"noField", "string", "null"}, seconds : {0}]

WellFormedDetails == {d \in Details : d.kind = "object"}

\* typeof detail === 'object' ? detail.retry_after_seconds : 3600
RetrySecondsOf(detail) ==
  CASE detail.kind = "object"  -> Num(detail.seconds)
    [] detail.kind = "noField" -> JsUndef
    [] OTHER                   -> Num(DefaultRetry)

\* setRetrySeconds(seconds); setCountdown(formatTime(seconds)); setShowQuotaPopup(true)
Activate(c, seconds) ==
  [c EXCEPT !.retrySeconds = seconds, !.countdown = formatTime(seconds),
            !.showQuotaPopup = TRUE]

\* The catch branch for error.response.status === 429.  With detail === null,
\* typeof is 'object' and reading null.retry_after_seconds throws out of the
\* catch block: only the finally clause still runs.
Resolve429(r, detail) ==
  /\ r \in requests
  /\ requests' = requests \ {r}
  /\ IF detail.kind = "null"
     THEN /\ chat' = FinishTurn(r, chat)
          /\ UNCHANGED <<sessionMessages, lsMessages, currentEmotion>>
     ELSE /\ chat' = FinishTurn(r, IF r.inst = inst
                                   THEN Activate(chat, RetrySecondsOf(detail))
                                   ELSE chat)
          /\ updateSessionMessages(r.sid, Append(r.newMessages, ErrorMessage(QuotaErrorText)))
          /\ currentEmotion' = "neutral"
  /\ UNCHANGED <<sessionId, activeTab, isMascotSpeaking, currentResponse, sessions,
                 showSessionList, emotionResets, lsSession, lsSessions, lsAutoSpeak,
                 inst, mounts, currentUtteranceRef, nextSid, turns, speakTimers,
                 utterances, recognition, results>>

\* The catch branch for every other failure.
ResolveOther(r) ==
  /\ r \in requests
  /\ requests' = requests \ {r}
  /\ updateSessionMessages(r.sid, Append(r.newMessages, ErrorMessage(GenericErrorText)))
  /\ currentEmotion' = "neutral"
  /\ chat' = FinishTurn(r, chat)
  /\ UNCHANGED <<sessionId, activeTab, isMascotSpeaking, currentResponse, sessions,
                 showSessionList, emotionResets, lsSession, lsSessions, lsAutoSpeak,
                 inst, mounts, currentUtteranceRef, nextSid, turns, speakTimers,
                 utterances, recognition, results>>

\* The promise of chatAPI.sendMessage settles, with any outcome, and the rest
\* of handleSendMessage runs.
Resolve(r) ==
  \/ \E answer \in Answers, emotion \in RespEmotions : ResolveSuccess(r, answer, emotion)
  \/ \E detail \in Details : Resolve429(r, detail)
  \/ ResolveOther(r)

\* ------------------------------------------------ ChatInterface: the quota
\* The interval exists while the effect's condition holds; the effect's
\* cleanup clears it whenever showQuotaPopup or retrySeconds changes.
TimerRunningIgnoringPopup(c) == IsPositive(c.retrySeconds)

TimerRunning(c) == c.showQuotaPopup /\ IsPositive(c.retrySeconds)

\* prev => prev <= 1 ? 0 : prev - 1
NextSeconds(prev) == IF prev <= 1 THEN 0 ELSE prev - 1

\* The setInterval callback, with the effect that updates the display
Tick ==
  /\ inst # NoInst /\ TimerRunning(chat)
  /\ LET seconds == Num(NextSeconds(chat.retrySeconds.v))
     IN  chat' = [chat EXCEPT !.retrySeconds = seconds,
                              !.countdown = formatTime(seconds)]
  /\ UNCHANGED <<appVars, lsVars, inst, mounts, currentUtteranceRef, worldVars>>

\* onClick of the overlay or of the Close button: setShowQuotaPopup(false)
DismissPopup ==
  /\ inst # NoInst /\ chat.showQuotaPopup
  /\ chat' = [chat EXCEPT !.showQuotaPopup = FALSE]
  /\ UNCHANGED <<appVars, lsVars, inst, mounts, currentUtteranceRef, worldVars>>

\* ----------------------------------------------- ChatInterface: playback
\* An utterance is [inst, status, text]: the instance whose handlers it
\* carries; "pending" (handed to speechSynthesis.speak, not started),
\* "speaking" (its start event fired), "cancelled" (removed by cancel(), its
\* error/end event not delivered yet) or "done" (its end/error event fired).
Active(uts) == {u \in DOMAIN uts : uts[u].status \in {"pending", "speaking"}}

\* App.handleSpeakingChange(speaking)
handleSpeakingChange(speaking) ==
  /\ isMascotSpeaking' = speaking
  /\ emotionResets' = IF speaking THEN emotionResets ELSE emotionResets + 1

\* if (currentUtteranceRef.current)
Interrupts(ref) == ref # NoUtter

\* if (isToggle) return;  inside the interruption branch
StopsAfterInterrupt(interrupted, isToggle) == interrupted /\ isToggle

\* if (!autoSpeak && !forceSpeak) return;  if (!text || !text.trim()) return;
Declines(auto, forceSpeak, text) == (~auto /\ ~forceSpeak) \/ IsBlank(text)

\* speakText(text, forceSpeak, isToggle) as created by a render of instance i
\* in which autoSpeak was auto.
speakText(i, text, forceSpeak, isToggle, auto) ==
  LET interrupted == Interrupts(currentUtteranceRef[i])
      uts  == IF interrupted THEN CancelAll(utterances) ELSE utterances
      stop == StopsAfterInterrupt(interrupted, isToggle)
              \/ Declines(auto, forceSpeak, text)
      new  == Len(utterances) + 1
  IN  /\ ~stop => Len(utterances) < MaxUtter
      /\ utterances' =
           IF stop THEN uts
           ELSE Append(uts, [inst |-> i, status |-> "pending", text |-> RemoveMd(text)])
      /\ currentUtteranceRef' =
           [currentUtteranceRef EXCEPT
              ![i] = IF ~stop THEN new ELSE IF interrupted THEN NoUtter ELSE @]
      /\ chat' = IF interrupted /\ i = inst
                 THEN [chat EXCEPT !.isSpeaking = FALSE] ELSE chat
      /\ IF interrupted THEN handleSpeakingChange(FALSE)
         ELSE UNCHANGED <<isMascotSpeaking, emotionResets>>

\* The speak button of an assistant message of the open transcript:
\* speakText(message.content, true, true)
ClickSpeak(text) ==
  /\ inst # NoInst
  /\ AiMessage(text) \in Range(Messages(sessionMessages, sessionId))
  /\ speakText(inst, text, TRUE, TRUE, chat.autoSpeak)
  /\ UNCHANGED <<sessionId, activeTab, currentEmotion, currentResponse,
                 sessionMessages, sessions, showSessionList, lsVars, inst, mounts,
                 nextSid, requests, turns, speakTimers, recognition, results>>

\* setTimeout(() => speakText(response.data.answer, true), 100)
DeferredSpeak(t) ==
  /\ t \in speakTimers
  /\ speakTimers' = speakTimers \ {t}
  /\ speakText(t.inst, t.text, TRUE, FALSE, t.autoSpeak)
  /\ UNCHANGED <<sessionId, activeTab, currentEmotion, currentResponse,
                 sessionMessages, sessions, showSessionList, lsVars, inst, mounts,
                 nextSid, requests, turns, recognition, results>>

\* utterance.onstart: the service starts the oldest queued utterance when
\* nothing is being spoken
UtterStart(u) ==
  /\ u \in DOMAIN utterances /\ utterances[u].status = "pending"
  /\ \A v \in DOMAIN utterances :
        /\ utterances[v].status # "speaking"
        /\ v < u => utterances[v].status # "pending"
  /\ utterances' = [utterances EXCEPT ![u].status = "speaking"]
  /\ chat' = IF utterances[u].inst = inst
             THEN [chat EXCEPT !.isSpeaking = TRUE] ELSE chat
  /\ handleSpeakingChange(TRUE)
  /\ UNCHANGED <<sessionId, activeTab, currentEmotion, currentResponse,
                 sessionMessages, sessions, showSessionList, lsVars, inst, mounts,
                 currentUtteranceRef, nextSid, requests, turns, speakTimers,
                 recognition, results>>

\* currentUtteranceRef.current = null  in onend and onerror
ClearsHandle(u, ref) == NoUtter

\* What utterance.onend and utterance.onerror both do
UtterFinished(u) ==
  /\ utterances' = [utterances EXCEPT ![u].status = "done"]
  /\ chat' = IF utterances[u].inst = inst
             THEN [chat EXCEPT !.isSpeaking = FALSE] ELSE chat
  /\ handleSpeakingChange(FALSE)
  /\ currentUtteranceRef' =
       [currentUtteranceRef EXCEPT ![utterances[u].inst] = ClearsHandle(u, @)]
  /\ UNCHANGED <<sessionId, activeTab, currentEmotion, currentResponse,
                 sessionMessages, sessions, showSessionList, lsVars, inst, mounts,
                 nextSid, requests, turns, speakTimers, recognition, results>>

\* utterance.onend: the utterance was spoken to its end
UtterEnd(u) ==
  /\ u \in DOMAIN utterances /\ utterances[u].status = "speaking"
  /\ UtterFinished(u)

\* utterance.onerror: synthesis failed, or the utterance was removed by
\* cancel() ("interrupted" / "canceled"), which the service reports later
UtterError(u) ==
  /\ u \in DOMAIN utterances
  /\ utterances[u].status \in {"pending", "speaking", "cancelled"}
  /\ UtterFinished(u)

\* ------------------------------------------------------------------ Next
\* The events of each part of the program.
SessionEvents ==
  \/ \E tab \in {"chat", "documents"} : SetActiveTab(tab)
  \/ ToggleSessionList
  \/ handleNewSession
  \/ \E id \in 1..MaxSessions : handleLoadSession(id)
  \/ \E id \in 1..MaxSessions : handleDeleteSession(id)

TurnEvents ==
  \/ \E text \in TypedTexts : SetInputValue(text)
  \/ handleSendMessage
  \/ \E r \in requests, answer \in Answers, emotion \in RespEmotions :
        ResolveSuccess(r, answer, emotion)
  \/ \E r \in requests, detail \in Details : Resolve429(r, detail)
  \/ \E r \in requests : ResolveOther(r)

QuotaEvents ==
  \/ Tick
  \/ DismissPopup

ListeningEvents ==
  \/ toggleListening
  \/ handleResult
  \/ handleError
  \/ handleEnd

PlaybackEvents ==
  \/ \E b \in BOOLEAN : SetAutoSpeak(b)
  \/ \E text \in Answers : ClickSpeak(text)
  \/ \E t \in speakTimers : DeferredSpeak(t)
  \/ \E u \in 1..MaxUtter : UtterStart(u)
  \/ \E u \in 1..MaxUtter : UtterEnd(u)
  \/ \E u \in 1..MaxUtter : UtterError(u)
  \/ EmotionResetTimeout

Next ==
  \/ SessionEvents
  \/ TurnEvents
  \/ QuotaEvents
  \/ ListeningEvents
  \/ PlaybackEvents
  \/ Restart
  \/ \E dm \in MessagesDamage, ds \in SessionsDamage, da \in AutoSpeakDamage :
        RestartDamaged(dm, ds, da)

\* The whole program.  Its state space is beyond enumeration even for the
\* bounds above, so each property is checked under one of the specifications
\* below: the same program from the same initial state, driven by the events
\* of the parts the property is about while the other parts receive none.
Spec == Init /\ [][Next]_vars

\* Turns and sessions: the Turn Coordinator and the Session Store.
SessionNext == SessionEvents \/ TurnEvents
SessionSpec == Init /\ [][SessionNext]_vars

\* Turns and playback in one view: the chat tab stays open on one session.
PlaybackNext ==
  \/ \E text \in {"q"} : SetInputValue(text)
  \/ handleSendMessage
  \/ \E r \in requests, answer \in {"text"}, emotion \in RespEmotions :
        ResolveSuccess(r, answer, emotion)
  \/ PlaybackEvents
PlaybackSpec == Init /\ [][PlaybackNext]_vars

\* Turns, the quota tracker, and what unmounts the view.
QuotaNext ==
  \/ \E text \in {"q"} : SetInputValue(text)
  \/ handleSendMessage
  \/ \E r \in requests, detail \in WellFormedDetails : Resolve429(r, detail)
  \/ \E r \in requests : ResolveOther(r)
  \/ \E tab \in {"chat", "documents"} : SetActiveTab(tab)
  \/ handleNewSession
  \/ QuotaEvents
QuotaSpec == Init /\ [][QuotaNext]_vars

\* Turns and what unmounts the view, with a backend that settles every call:
\* each request in flight is eventually answered or fails.
LiveNext ==
  \/ TurnEvents
  \/ \E tab \in {"chat", "documents"} : SetActiveTab(tab)
  \/ handleNewSession
LiveSpec ==
  /\ Init /\ [][LiveNext]_vars
  /\ \A id \in 1..MaxTurns : WF_vars(\E r \in requests : r.id = id /\ Resolve(r))

\* The Session Store: sessions created, loaded and deleted, turns answered,
\* and the application restarted on what it persisted.
StoreNext ==
  \/ SessionEvents
  \/ \E text \in {"q"} : SetInputValue(text)
  \/ handleSendMessage
  \/ \E r \in requests, answer \in {"text"}, emotion \in {"explaining"} :
        ResolveSuccess(r, answer, emotion)
  \/ Restart
StoreSpec == Init /\ [][StoreNext]_vars

\* Turns, playback and listening in one view.
VoiceNext ==
  \/ PlaybackNext
  \/ ListeningEvents
VoiceSpec == Init /\ [][VoiceNext]_vars

\* Turns and playback in one view, with answers of every kind: ordinary
\* text, markup only, whitespace only.
MarkupNext ==
  \/ \E text \in {"q"} : SetInputValue(text)
  \/ handleSendMessage
  \/ \E r \in requests, answer \in Answers, emotion \in {NoEmotion} :
        ResolveSuccess(r, answer, emotion)
  \/ PlaybackEvents
MarkupSpec == Init /\ [][MarkupNext]_vars

\* Sessions and turns, and the application restarted on stored values that
\* may be damaged.
CorruptNext ==
  \/ \E text \in {"q"} : SetInputValue(text)
  \/ handleSendMessage
  \/ \E r \in requests, answer \in {"text"}, emotion \in {"explaining"} :
        ResolveSuccess(r, answer, emotion)
  \/ handleNewSession
  \/ \E b \in BOOLEAN : SetAutoSpeak(b)
  \/ \E dm \in MessagesDamage, ds \in SessionsDamage, da \in AutoSpeakDamage :
        RestartDamaged(dm, ds, da)
CorruptSpec == Init /\ [][CorruptNext]_vars

\* Typed and dictated input, and turns, in one view.
InputNext ==
  \/ TurnEvents
  \/ ListeningEvents
InputSpec == Init /\ [][InputNext]_vars

\* Turns in one view answered by rate-limit responses of every payload shape.
PayloadNext ==
  \/ \E text \in {"q"} : SetInputValue(text)
  \/ handleSendMessage
  \/ \E r \in requests, detail \in Details : Resolve429(r, detail)
  \/ QuotaEvents
PayloadSpec == Init /\ [][PayloadNext]_vars

\* The quota tracker counting down, from the state a rate-limit response with
\* a retry delay (or none) leaves the first turn of a fresh application in.
FormatInputs == {JsUndef, Num(-1)} \cup {Num(n) : n \in 0..MaxFormatSeconds}
FormatInit ==
  /\ sessionId = 1
  /\ activeTab = "chat"
  /\ currentEmotion = "neutral"
  /\ isMascotSpeaking = FALSE
  /\ currentResponse = ""
  /\ sessionMessages = (1 :> <<UserMessage("q"), ErrorMessage(QuotaErrorText)>>)
  /\ sessions = <<>>
  /\ showSessionList = FALSE
  /\ emotionResets = 0
  /\ lsSession = 1
  /\ lsMessages = sessionMessages
  /\ lsSessions = <<>>
  /\ lsAutoSpeak = "true"
  /\ inst = 1
  /\ mounts = 1
  /\ \E seconds \in FormatInputs : chat = Activate(FreshChat(TRUE), seconds)
  /\ currentUtteranceRef = [i \in 1..MaxMounts |-> NoUtter]
  /\ nextSid = 1
  /\ requests = {}
  /\ turns = 1
  /\ speakTimers = {}
  /\ utterances = <<>>
  /\ recognition = "idle"
  /\ results = 0
FormatSpec == FormatInit /\ [][QuotaEvents]_vars

\* ======================================================== the properties
IsPrefix(a, b) == Len(a) <= Len(b) /\ SubSeq(b, 1, Len(a)) = a

\* C1: at most one backend chat request is in flight at any time, whatever
\* submits, session switches, new-session actions and tab changes came before.
C1_AtMostOneRequestInFlight == Cardinality(requests) <= 1

\* C2: in every step, every session that still exists after the step has its
\* transcript from before the step as a prefix of its transcript after it.
C2_TranscriptOnlyGrows ==
  [][\A s \in DOMAIN sessionMessages :
        s \in DOMAIN sessionMessages' =>
          IsPrefix(sessionMessages[s], sessionMessages'[s])]_vars

\* C3: when the response of a turn resolves (its request leaves the set of
\* requests in flight) and the session the turn was submitted in is no longer
\* current, no transcript changes.
C3_StaleResponseDiscarded ==
  [][\A r \in requests :
        (r \notin requests' /\ r.sid # sessionId) =>
          sessionMessages' = sessionMessages]_vars

\* C4: at most one utterance handed to the speech service has not yet ended,
\* errored or been cancelled.
C4_AtMostOnePlayback == Cardinality(Active(utterances)) <= 1

\* C5: a toggle call of speak() (the speak button) made while a playback is
\* in progress leaves no playback in progress; a non-toggle call (the
\* deferred auto-speak of an answer) made while a playback is in progress
\* cancels it and leaves exactly the new utterance in progress.
C5_ToggleStopsNonToggleReplaces ==
  [][/\ \A text \in Answers :
          (ClickSpeak(text) /\ Active(utterances) # {}) =>
            Active(utterances') = {}
     /\ \A t \in speakTimers :
          (DeferredSpeak(t) /\ Active(utterances) # {} /\ ~IsBlank(t.text)) =>
            Active(utterances') = {Len(utterances) + 1}]_vars

\* C6: when a successful answer is applied while a playback is in progress,
\* the playback is cancelled: either by that step, or by the speak call the
\* step schedules, which cancels every playback in progress when it runs.
C6_AnswerStopsPlayback ==
  [][/\ \A r \in requests, answer \in Answers, emotion \in RespEmotions :
          (ResolveSuccess(r, answer, emotion) /\ Active(utterances) # {}) =>
            \/ Active(utterances') = {}
            \/ \E t \in speakTimers' \ speakTimers : t.id = r.id
     /\ \A t \in speakTimers :
          DeferredSpeak(t) => Active(utterances) \cap Active(utterances') = {}]_vars

\* C7: activation with n > 0 shows the popup with remaining time n; a tick
\* takes exactly one off and never goes below zero; at zero no timer is left;
\* and a visible popup stays visible through every step that is not the
\* user's dismissal.
C7_CountdownRunsAndPopupStays ==
  [][/\ \A r \in requests, d \in WellFormedDetails :
          (Resolve429(r, d) /\ r.inst = inst /\ d.seconds > 0) =>
            chat'.showQuotaPopup /\ chat'.retrySeconds = Num(d.seconds)
     /\ Tick => /\ chat'.retrySeconds.v = chat.retrySeconds.v - 1
                /\ chat'.retrySeconds.v >= 0
     /\ chat'.retrySeconds = Num(0) => ~TimerRunning(chat')
     /\ (chat.showQuotaPopup /\ ~DismissPopup) => chat'.showQuotaPopup]_vars

\* C8 as stated: dismiss() hides the popup, leaves the remaining time as it
\* is, and leaves the timer pending when time remains.
C8_DismissKeepsTimer ==
  [][DismissPopup =>
       /\ ~chat'.showQuotaPopup
       /\ chat'.retrySeconds = chat.retrySeconds
       /\ IsPositive(chat'.retrySeconds) => TimerRunning(chat')]_vars

\* C8 as amended: dismiss() hides the popup and leaves the remaining time and
\* its display as they are, and it cancels the countdown: in no step that
\* the view survives with the popup hidden before and after it does the
\* remaining time change.
C8_DismissFreezesCountdown ==
  [][/\ DismissPopup =>
          /\ ~chat'.showQuotaPopup
          /\ chat'.retrySeconds = chat.retrySeconds
          /\ chat'.countdown = chat.countdown
     /\ (inst # NoInst /\ inst' = inst /\ ~chat.showQuotaPopup /\ ~chat'.showQuotaPopup)
          => chat'.retrySeconds = chat.retrySeconds]_vars

\* C8 witness: the popup was dismissed with time remaining.
C8_DismissedWithTimeLeft ==
  inst # NoInst /\ ~chat.showQuotaPopup /\ IsPositive(chat.retrySeconds)

DigitChars == {"0", "1", "2", "3", "4", "5", "6", "7", "8", "9"}
DigitValue(c) == CHOOSE d \in 0..9 : Digit(d) = c
RECURSIVE ParseNat(_)
ParseNat(chars) ==
  IF chars = <<>> THEN 0
  ELSE ParseNat(SubSeq(chars, 1, Len(chars) - 1)) * 10 + DigitValue(chars[Len(chars)])
IsDigits(chars) == \A i \in 1..Len(chars) : chars[i] \in DigitChars

\* C9: the display of a remaining time s >= 0 reads "HHh MMm SSs" with
\* HH = s div 3600, MM = (s mod 3600) div 60, SS = s mod 60, each of two
\* digits with a leading zero where needed, so that the three numbers read
\* back give s; 3725 reads "01h 02m 05s", 120 reads "00h 02m 00s"; for
\* s <= 0 or no number at all it reads "00h 00m 00s".
C9_DisplayFormat ==
  LET s  == chat.retrySeconds
      d  == chat.countdown
      n  == Len(d)
      hh == SubSeq(d, 1, n - 9)
      mm == SubSeq(d, n - 6, n - 5)
      ss == SubSeq(d, n - 2, n - 1)
  IN  /\ (s.t # "number" \/ s.v <= 0) =>
           d = <<"0","0","h"," ","0","0","m"," ","0","0","s">>
      /\ (s.t = "number" /\ s.v >= 0) =>
           /\ n >= 11
           /\ SubSeq(d, n - 8, n - 7) = <<"h", " ">>
           /\ SubSeq(d, n - 4, n - 3) = <<"m", " ">>
           /\ d[n] = "s"
           /\ IsDigits(hh) /\ IsDigits(mm) /\ IsDigits(ss)
           /\ Len(hh) = 2 \/ hh[1] # "0"
           /\ ParseNat(hh) = s.v \div 3600
           /\ ParseNat(mm) = (s.v % 3600) \div 60
           /\ ParseNat(ss) = s.v % 60
           /\ ParseNat(hh) * 3600 + ParseNat(mm) * 60 + ParseNat(ss) = s.v
      /\ s = Num(3725) => d = <<"0","1","h"," ","0","2","m"," ","0","5","s">>
      /\ s = Num(120)  => d = <<"0","0","h"," ","0","2","m"," ","0","0","s">>

\* C9 witness: the tracker shows a remaining time of 3724 seconds (set by an
\* activation, or left by a tick from 3725) as "01h 02m 04s".
C9_DisplayAfterTick ==
  /\ inst # NoInst /\ chat.showQuotaPopup
  /\ chat.retrySeconds = Num(3724)
  /\ chat.countdown = <<"0","1","h"," ","0","2","m"," ","0","4","s">>

\* C10: a rate-limit response with a well-formed payload leaves the popup
\* visible with the payload's delay as remaining time, the turn's transcript
\* extended by exactly one error message right after its user message, and
\* the avatar emotion neutral.
C10_RateLimitActivatesTracker ==
  [][\A r \in requests, d \in WellFormedDetails :
        Resolve429(r, d) =>
          /\ inst # NoInst
          /\ chat'.showQuotaPopup
          /\ chat'.retrySeconds = Num(d.seconds)
          /\ r.newMessages[Len(r.newMessages)].role = "user"
          /\ sessionMessages'[r.sid]
               = Append(r.newMessages, ErrorMessage(QuotaErrorText))
          /\ currentEmotion' = "neutral"]_vars

\* C11: a rate-limit response whose payload is present but malformed (a
\* string, null, or an object without retry_after_seconds) leaves the popup
\* visible with a remaining time of 3600 seconds and the countdown running.
C11_MalformedPayloadDefaults ==
  [][\A r \in requests, d \in Details \ WellFormedDetails :
        Resolve429(r, d) =>
          /\ chat'.showQuotaPopup
          /\ chat'.retrySeconds = Num(DefaultRetry)
          /\ TimerRunning(chat')]_vars

\* C12: when a turn fails with anything but a rate limit, the transcript of
\* the turn's session ends with the turn's user message before the step and
\* is that transcript with exactly one generic error message appended after
\* it; the avatar emotion is neutral; popup visibility and remaining time
\* are unchanged.
C12_OtherFailureAppendsGenericError ==
  [][\A r \in requests :
        ResolveOther(r) =>
          /\ Messages(sessionMessages, r.sid) = r.newMessages
          /\ r.newMessages[Len(r.newMessages)].role = "user"
          /\ Messages(sessionMessages', r.sid)
               = Append(Messages(sessionMessages, r.sid), ErrorMessage(GenericErrorText))
          /\ currentEmotion' = "neutral"
          /\ chat'.showQuotaPopup = chat.showQuotaPopup
          /\ chat'.retrySeconds = chat.retrySeconds]_vars

\* C13: a successful response leaves, as the last message of the turn's
\* transcript, an assistant message with the answer that carries the
\* response's emotion tag ("neutral" when the response has none), and the
\* avatar emotion equals that tag after the step.
C13_AnswerCarriesEmotionTag ==
  [][\A r \in requests, answer \in Answers, emotion \in RespEmotions :
        ResolveSuccess(r, answer, emotion) =>
          LET tag  == IF emotion = NoEmotion THEN "neutral" ELSE emotion
              list == Messages(sessionMessages', r.sid)
              m    == list[Len(list)]
          IN  /\ Len(list) = Len(r.newMessages) + 1
              /\ m.role = "assistant" /\ m.content = answer
              /\ currentEmotion' = tag
              /\ "emotion" \in DOMAIN m
              /\ m.emotion = tag]_vars

\* C14: a request is dispatched only in a step after which its session's
\* transcript ends with the turn's user message; playback of a reply is
\* scheduled only by the step that resolves the reply's turn, after which the
\* reply is the last message of the turn's transcript; and an utterance is
\* handed to the speech service only for a reply whose playback was so
\* scheduled, or for an assistant message of the open transcript.
C14_TurnEventOrder ==
  [][/\ \A r \in requests' \ requests :
          /\ Messages(sessionMessages', r.sid) = r.newMessages
          /\ r.newMessages[Len(r.newMessages)].role = "user"
     /\ \A t \in speakTimers' \ speakTimers :
          \E r \in requests \ requests' :
            /\ t.id = r.id
            /\ Messages(sessionMessages', r.sid)
                 = Append(r.newMessages, AiMessage(t.text))
     /\ \A u \in DOMAIN utterances' \ DOMAIN utterances :
          \/ \E t \in speakTimers \ speakTimers' :
                utterances'[u].text = RemoveMd(t.text)
          \/ \E m \in Range(Messages(sessionMessages, sessionId)) :
                m.role = "assistant" /\ utterances'[u].text = RemoveMd(m.content)]_vars

\* C14 witness: the reply of a turn, appended to the transcript after the
\* turn's user message, is being read aloud by the deferred auto-speak.
C14_ReplyPlayingAfterAppend ==
  /\ turns >= 1 /\ requests = {} /\ speakTimers = {}
  /\ Messages(sessionMessages, sessionId) = <<UserMessage("q"), AiMessage("text")>>
  /\ Len(utterances) = 1 /\ utterances[1].status = "speaking"
  /\ utterances[1].text = "text"

\* C15: every turn that is being sent eventually is no longer in flight, and
\* then the view that sent it, if it is still open, accepts a submission
\* again; and a view that is loading eventually is not.  The backend
\* settles with any outcome: success, rate limit with a well-formed or a
\* malformed payload, any other failure.
C15_TurnReturnsToIdle ==
  /\ \A id \in 1..MaxTurns, i \in 1..MaxMounts :
        (\E r \in requests : r.id = id /\ r.inst = i)
          ~> (/\ \A r \in requests : r.id # id
              /\ inst = i => ~chat.isLoading)
  /\ (inst # NoInst /\ chat.isLoading) ~> ~chat.isLoading

\* C15 witness: the turn was answered by a rate-limit response with a null
\* payload, which leaves nothing in the transcript, and the view that sent
\* it accepts a submission again.
C15_IdleAfterNullPayload ==
  /\ inst = 1 /\ sessionId = 1 /\ turns = 1 /\ requests = {}
  /\ Messages(sessionMessages, sessionId) = <<UserMessage("q")>>
  /\ ~chat.isLoading /\ ~chat.showQuotaPopup

\* C16: a submit whose input is empty after trimming changes nothing (no
\* step that changes the state is such a submit), and no request is ever
\* dispatched from an input that is empty after trimming.
C16_EmptySubmitChangesNothing ==
  [][/\ (handleSendMessage /\ IsBlank(chat.inputValue)) => UNCHANGED vars
     /\ \A r \in requests' \ requests :
          /\ ~IsBlank(chat.inputValue)
          /\ r.newMessages[Len(r.newMessages)] = UserMessage(chat.inputValue)]_vars

\* C16 witness: the view is listening, a turn has been made before, and the
\* input holds whitespace only: a submit here is ignored.
C16_BlankInputWhileListening ==
  /\ inst # NoInst /\ chat.inputValue = " " /\ ~chat.isLoading
  /\ chat.isListening /\ recognition = "capturing"
  /\ turns >= 1 /\ requests = {}

\* C17: deleting the session that is current makes current a session whose
\* identifier differs from the deleted one, is in no catalog entry, has no
\* transcript and no request in flight, and whose transcript is empty; the
\* chat view is open on it.
C17_DeleteCurrentStartsFresh ==
  [][\A id \in 1..MaxSessions :
        (handleDeleteSession(id) /\ id = sessionId) =>
          /\ sessionId' # id /\ sessionId' # NoSession
          /\ sessionId' \notin CatalogIds(sessions) \cup CatalogIds(sessions')
          /\ sessionId' \notin DOMAIN sessionMessages \cup DOMAIN sessionMessages'
          /\ sessionId' \notin DOMAIN lsMessages' \cup CatalogIds(lsSessions')
          /\ \A r \in requests' : r.sid # sessionId'
          /\ Messages(sessionMessages', sessionId') = <<>>
          /\ lsSession' = sessionId'
          /\ activeTab' = "chat" /\ inst' # NoInst]_vars

\* C17 witness: the first session, archived and loaded again, was deleted
\* while it was current; the third identifier generated is current.
C17_CurrentDeleted ==
  /\ sessionId = 3 /\ nextSid = 3 /\ mounts = 4 /\ inst = 4 /\ turns = 1
  /\ showSessionList
  /\ sessions = <<>> /\ sessionMessages = <<>>
  /\ CatalogIds(lsSessions) = {1}

\* C18: a deleted session is in no catalog and has no transcript, in memory
\* and in localStorage, right after the deletion; and a session that is not
\* current, is in no catalog and has no transcript (as a deleted one is)
\* gets neither a catalog entry nor a transcript in any later step, a
\* response resolving or a restart included.
C18_DeletedStaysDeleted ==
  [][\A id \in 1..MaxSessions :
        /\ handleDeleteSession(id) =>
             /\ id \notin CatalogIds(sessions') \cup DOMAIN sessionMessages'
             /\ id \notin CatalogIds(lsSessions') \cup DOMAIN lsMessages'
        /\ (/\ id <= nextSid /\ id # sessionId
            /\ id \notin CatalogIds(sessions) \cup DOMAIN sessionMessages
            /\ id \notin CatalogIds(lsSessions) \cup DOMAIN lsMessages)
             => /\ id \notin CatalogIds(sessions') \cup DOMAIN sessionMessages'
                /\ id \notin CatalogIds(lsSessions') \cup DOMAIN lsMessages']_vars

\* C19: every session listed in the catalog kept in localStorage has a
\* transcript with at least one message (in memory, or at least among the
\* transcripts kept in localStorage).
C19_PersistedCatalogHasMessages ==
  \A id \in CatalogIds(lsSessions) :
     \/ Len(Messages(sessionMessages, id)) > 0
     \/ Len(Messages(lsMessages, id)) > 0

\* C20: a session is in the catalog if and only if it has at least one
\* message and is not the current session while that is not archived yet; so
\* every catalog entry has a message, and every session that has a message
\* and is not current is in the catalog.
C20_CatalogIffHasMessages ==
  \A id \in 1..nextSid :
     id \in CatalogIds(sessions)
       <=> /\ Len(Messages(sessionMessages, id)) > 0
           /\ ~(id = sessionId /\ id \notin CatalogIds(sessions))

\* C21: createSession makes current an identifier that no session has, with
\* an empty transcript, and stores it as the persisted current session; the
\* session that was current is put at the head of the catalog exactly when
\* it has at least one message and is not in the catalog already, otherwise
\* the catalog is unchanged; no transcript changes.
C21_CreateSessionArchives ==
  [][handleNewSession =>
       /\ sessionId' # sessionId /\ sessionId' # NoSession
       /\ sessionId' \notin CatalogIds(sessions') \cup DOMAIN sessionMessages'
       /\ Messages(sessionMessages', sessionId') = <<>>
       /\ lsSession' = sessionId'
       /\ sessionMessages' = sessionMessages
       /\ IF /\ Len(Messages(sessionMessages, sessionId)) > 0
             /\ sessionId \notin CatalogIds(sessions)
          THEN /\ Len(sessions') = Len(sessions) + 1
               /\ sessions'[1].id = sessionId
               /\ Tail(sessions') = sessions
          ELSE sessions' = sessions]_vars

\* C21 witness: the first session, with one message, was archived by
\* createSession and the second identifier is current.
C21_FirstSessionArchived ==
  /\ sessionId = 2 /\ nextSid = 2
  /\ sessions = <<[id |-> 1, messageCount |-> 1]>>
  /\ Messages(sessionMessages, 1) = <<UserMessage("q")>>
  /\ Messages(sessionMessages, 2) = <<>>

\* C22: switchSession(id) makes id current, in memory and in localStorage,
\* and changes neither the catalog nor any transcript, in memory or in
\* localStorage: the session being left is not archived.
C22_SwitchSessionFrame ==
  [][\A id \in 1..MaxSessions :
        handleLoadSession(id) =>
          /\ sessionId' = id /\ lsSession' = id
          /\ id \in CatalogIds(sessions)
          /\ sessions' = sessions /\ lsSessions' = lsSessions
          /\ sessionMessages' = sessionMessages /\ lsMessages' = lsMessages]_vars

\* C22 witness: the archived first session was made current again while the
\* second session, which has a message, was open; the second session is not
\* in the catalog.
C22_SwitchedBack ==
  /\ sessionId = 1 /\ lsSession = 1 /\ nextSid = 2
  /\ CatalogIds(sessions) = {1}
  /\ Len(Messages(sessionMessages, 2)) > 0
  /\ inst # NoInst /\ ~showSessionList

\* C23: after every step the current-session id, the transcripts and the
\* catalog kept in localStorage equal the ones in memory, and a restart
\* leaves the current session id, the transcripts and the catalog as they
\* were before it.
C23_PersistedEqualsMemory ==
  [][/\ lsSession' = sessionId'
     /\ lsMessages' = sessionMessages'
     /\ lsSessions' = sessions'
     /\ Restart => /\ sessionId' = sessionId
                   /\ sessionMessages' = sessionMessages
                   /\ sessions' = sessions]_vars

\* C24: a start on damaged stored values completes: the interface is up with
\* a session and an idle chat view that accepts a submission, the state read
\* from a damaged key is empty (transcripts, catalog) or the default
\* (auto-speak on).
C24_CorruptStorageTolerated ==
  [][\A dm \in MessagesDamage, ds \in SessionsDamage, da \in AutoSpeakDamage :
        RestartDamaged(dm, ds, da) =>
          /\ activeTab' # Crashed
          /\ inst' # NoInst /\ sessionId' # NoSession
          /\ ~chat'.isLoading
          /\ dm # "intact" => sessionMessages' = <<>>
          /\ ds # "intact" => sessions' = <<>>
          /\ da # "intact" => chat'.autoSpeak]_vars

\* C25: the listening flag and the speaking flag of the view are never both
\* true.
C25_ListeningXorSpeaking == ~(chat.isListening /\ chat.isSpeaking)

\* C26: a submit made while the view is listening stops the capture, clears
\* the input and appends the user's message; and while a turn is being sent
\* a recognition result changes the input only if the view is listening
\* again, so not between the submit and the next start of the capture.
C26_NoLateResultAfterSubmit ==
  [][/\ (handleSendMessage /\ ~SubmitRejected(chat) /\ chat.isListening) =>
          /\ recognition' # "capturing" /\ ~chat'.isListening
          /\ chat'.inputValue = ""
          /\ Messages(sessionMessages', sessionId)
               = Append(Messages(sessionMessages, sessionId),
                        UserMessage(chat.inputValue))
     /\ (handleResult /\ chat.isLoading) => chat.isListening]_vars

\* C27: a speak call on a text whose markup-stripped form is empty after
\* trimming creates no utterance and leaves the handle of the view empty.
C27_EmptyStrippedTextNotSpoken ==
  [][/\ \A text \in Answers :
          (ClickSpeak(text) /\ IsBlank(RemoveMd(text))) =>
            /\ Len(utterances') = Len(utterances)
            /\ currentUtteranceRef'[inst] = NoUtter
     /\ \A t \in speakTimers :
          (DeferredSpeak(t) /\ IsBlank(RemoveMd(t.text))) =>
            /\ Len(utterances') = Len(utterances)
            /\ currentUtteranceRef'[t.inst] = NoUtter]_vars

\* C29: every utterance that was handed to the speech service and has not
\* ended, errored or been cancelled is the one the current-utterance handle
\* of its view refers to.
C29_HandleOwnsActiveUtterance ==
  \A u \in Active(utterances) : currentUtteranceRef[utterances[u].inst] = u

\* C28: the messageCount of every catalog entry equals the length of that
\* session's transcript.
C28_MessageCountIsTranscriptLength ==
  \A i \in 1..Len(sessions) :
     sessions[i].messageCount = Len(Messages(sessionMessages, sessions[i].id))

\* C30: when the response of a turn resolves, with any outcome, no session
\* other than the one the turn was submitted in gets, loses or changes a
\* transcript, whatever session is current.
C30_ResponseTouchesOwnSessionOnly ==
  [][\A r \in requests :
        Resolve(r) =>
          \A s \in 1..MaxSessions :
            s # r.sid =>
              /\ (s \in DOMAIN sessionMessages') = (s \in DOMAIN sessionMessages)
              /\ Messages(sessionMessages', s) = Messages(sessionMessages, s)]_vars

\* C30 witness: the first session was archived while its request was in
\* flight (with one message), the answer arrived while the second session
\* was current and went to the first session's transcript; the second
\* session's transcript is empty.
C30_AnsweredAfterNewSession ==
  /\ sessionId = 2 /\ requests = {} /\ turns = 1
  /\ sessions = <<[id |-> 1, messageCount |-> 1]>>
  /\ Messages(sessionMessages, 1) = <<UserMessage("q"), AiMessage("text")>>
  /\ Messages(sessionMessages, 2) = <<>>

\* C31: the catalog never holds two entries with the same session identifier,
\* in memory or as persisted, whatever sequence of new sessions, switches,
\* deletions and turns led to it: creating a session while the current one is
\* already archived, and the creation that follows the deletion of the
\* current session, add no second entry for it.
C31_CatalogIdsUnique ==
  /\ \A i, j \in DOMAIN sessions : sessions[i].id = sessions[j].id => i = j
  /\ \A i, j \in DOMAIN lsSessions : lsSessions[i].id = lsSessions[j].id => i = j

\* Session 1 was archived after its first turn, loaded again for a second
\* turn, and a new session was created from it once more.
C31_NewSessionFromArchived ==
  /\ sessionId = 3
  /\ sessions = <<[id |-> 1, messageCount |-> 2]>>
  /\ Len(Messages(sessionMessages, 1)) = 4

\* C32: the deferred reset to neutral that handleSpeakingChange(false)
\* schedules never overwrites the avatar emotion while the playback of a reply
\* is in progress: when the reset fires while an utterance is being spoken
\* (and no deferred playback is waiting), the emotion stays what it was.
C32_ResetSparesPlayingReply ==
  [][(/\ EmotionResetTimeout
      /\ speakTimers = {}
      /\ \E u \in DOMAIN utterances : utterances[u].status = "speaking")
        => currentEmotion' = currentEmotion]_vars

\* C33: whether a reply is read aloud automatically is decided by the
\* auto-speak setting in force when the reply arrives: the answer to a request
\* of the mounted view schedules its deferred playback exactly when the
\* checkbox is on at that moment, whatever it was when the request was sent.
C33_AutoSpeakSettingAtArrival ==
  [][\A r \in requests :
        (/\ r.inst = inst
         /\ \E answer \in Answers, emotion \in RespEmotions :
               ResolveSuccess(r, answer, emotion))
          => ((\E t \in speakTimers' : t.id = r.id) <=> chat.autoSpeak)]_vars

=============================================================================
